---- MODULE Spec2Model ----
(***************************************************************************)
(* Model of src/index.js: the download-session lifecycle of the Telegram   *)
(* media downloader bot.  One Map (activeDownloads) holds the sessions;    *)
(* the handlers of the bot (URL message, /cancel, callback_query, the      *)
(* child process' line / close / error listeners, updateProgress) are      *)
(* async functions on Node's single-threaded event loop.  Every awaited    *)
(* messaging call is a suspension point: the handler's position is kept in *)
(* a pc field and the call's reply (resolve or reject) is a later step.    *)
(* An await of a function that completes synchronously (execSync,          *)
(* statSync, unlinkSync inside) resumes in the same macrotask, so it is    *)
(* part of the step that makes the call.                                   *)
(***************************************************************************)
EXTENDS Integers, Sequences, FiniteSets, TLC

\* ------------------------------------------------------------------ bounds
MaxSessions == 2   \* URL messages that create a session
MaxPresses == 2    \* callback_query handlers suspended at the same time
MaxProcs == 2      \* child processes spawned
MaxLines == 2      \* progress lines read from one child process
MaxTicks == 3      \* clock steps

\* --------------------------------------------------------------- constants
MAX_FILE_SIZE == 50 * 1024 * 1024
PROGRESS_UPDATE_INTERVAL == 3000
MIN_PROGRESS_CHANGE == 5

MB == 1024 * 1024
TickMs == PROGRESS_UPDATE_INTERVAL \div 3
StartMs == TickMs                     \* Date.now() is never 0

\* JavaScript undefined / a defined value
Undefined == <<>>
Some(v) == <<v>>
IsDefined(x) == x # Undefined
Val(x) == x[1]
\* x || d for a numeric x: undefined and 0 are falsy
OrDefault(x, d) == IF IsDefined(x) /\ Val(x) # 0 THEN Val(x) ELSE d
Abs(n) == IF n < 0 THEN -n ELSE n
Min(a, b) == IF a < b THEN a ELSE b

\* -------------------------------------------------------------------- keys
Chats == {"chatA"}
SessionIds == 1..MaxSessions
SidKey(s) == <<"sessionId", s>>
ChatKey(c) == <<"chatId", c>>
Keys == {SidKey(s) : s \in SessionIds} \cup {<<"chatId", c>> : c \in Chats}

\* ------------------------------------------------------------ vocabulary
MenuActions == {"audio_menu", "video_menu", "main_menu"}
AudioActions == {"audio_128", "audio_192", "audio_320"}
VideoActions == {"video_480", "video_720", "video_best"}
FormatActions == AudioActions \cup VideoActions
\* every callback payload the handler can be given; the last two are not
\* among the buttons the bot renders
Actions == MenuActions \cup {"cancel"} \cup FormatActions \cup {"video_1080", "share"}

StartsWithAudio(a) == a \in AudioActions
StartsWithVideo(a) == a \in VideoActions \cup {"video_1080"}

\* titles: the probed one, and the two timestamp-derived fallbacks (one per probe)
ProbedTitle == <<"Song X", 0>>
FallbackTitle(n) == <<"Media_", n>>
FallbackFilename(n) == <<"media_", n>>
Titles == {ProbedTitle} \cup {FallbackTitle(n) : n \in SessionIds}
          \cup {FallbackFilename(n) : n \in SessionIds}
Paths == Titles \X {"mp3", "mp4"}

FileSizes == {0, MAX_FILE_SIZE, MAX_FILE_SIZE + 1}
ExitCodes == {0, 1}
\* the number before % on a "[download]  NN.N%" line, in tenths
LineTenths == {0, 44, 975, 1204}

\* an outbound messaging call
Msg(api, text, chat, num) == [api |-> api, text |-> text, chat |-> chat, num |-> num]

VARIABLES
  activeDownloads,  \* the keys of the Map
  obj,              \* the record object each key refers to (handlers alias it)
  nextSid,          \* session ids generated so far
  sessChat,         \* chat that holds each session's menu message
  url,              \* URL message handlers: position
  cb,               \* callback_query handlers: position and closure
  proc,             \* child processes and their close listener: position and closure
  edits,            \* progress edits of un-awaited updateProgress calls in flight
  files,            \* the download folder: size of each file, or Undefined
  clock,            \* Date.now()
  progressLog,      \* per process: the progress edits issued for it
  sent              \* the messaging calls issued by the last step

vars == <<activeDownloads, obj, nextSid, sessChat, url, cb, proc, edits, files,
          clock, progressLog, sent>>

EmptyRecord == [meta |-> Undefined, cleanTitle |-> Undefined,
                formatType |-> Undefined, quality |-> Undefined,
                progressMessageId |-> Undefined, downloadProcess |-> Undefined,
                lastProgress |-> Undefined, lastUpdateTime |-> Undefined]

IdleUrl == [pc |-> "idle", chat |-> "", sid |-> 0]
DoneUrl == [pc |-> "done", chat |-> "", sid |-> 0]
IdleCb == [pc |-> "idle", action |-> "", sid |-> 0, chat |-> "", oversize |-> FALSE]
FreeProc == [pc |-> "free", sid |-> 0, chat |-> "", path |-> Undefined,
             isAudio |-> FALSE, started |-> 0, lines |-> 0, errored |-> FALSE,
             killed |-> FALSE, code |-> 0, size |-> Undefined, outcome |-> "",
             uploaded |-> FALSE, now |-> 0]

Init ==
  /\ activeDownloads = {}
  /\ obj = [k \in Keys |-> EmptyRecord]
  /\ nextSid = 0
  /\ sessChat = [s \in SessionIds |-> ""]
  /\ url = [u \in SessionIds |-> IdleUrl]
  /\ cb = [t \in 1..MaxPresses |-> IdleCb]
  /\ proc = [p \in 1..MaxProcs |-> FreeProc]
  /\ edits = {}
  /\ files = [f \in Paths |-> Undefined]
  /\ clock = StartMs
  /\ progressLog = [p \in 1..MaxProcs |-> <<>>]
  /\ sent = <<>>

\* ---------------------------------------------------------------- helpers
\* (bytes / (1024 * 1024)).toFixed(2), as hundredths of a megabyte
SizeMB(bytes) ==
  (bytes \div MB) * 100 + (((bytes % MB) * 100 + (MB \div 2)) \div MB)

\* outcomes of the two execSync calls of getVideoInfo / getOriginalFilename
ProbeOutcomes == {"ok", "exit_nonzero", "malformed_json", "filename_fails"}

\* getOriginalFilename: the sanitized "<title>.<ext>", or media_<timestamp>.mp4
getOriginalFilename(outcome, n) ==
  IF outcome = "filename_fails" THEN FallbackFilename(n) ELSE ProbedTitle

\* mutant: the fallback record keeps no default platform
getVideoInfo_NoPlatform(outcome, n) ==
  IF outcome \in {"exit_nonzero", "malformed_json"}
  THEN [title |-> FallbackTitle(n), cleanTitle |-> FallbackTitle(n),
        platform |-> "", duration |-> 0, ext |-> "mp4"]
  ELSE [title |-> ProbedTitle, cleanTitle |-> getOriginalFilename(outcome, n),
        platform |-> "youtube", duration |-> 200, ext |-> "mp4"]

\* getVideoInfo: never throws; a failure of the JSON dump gives the fallback
\* record, a failure of getOriginalFilename alone gives its fallback file name
getVideoInfo(outcome, n) ==
  IF outcome \in {"exit_nonzero", "malformed_json"}
  THEN [title |-> FallbackTitle(n), cleanTitle |-> FallbackTitle(n),
        platform |-> "Unknown", duration |-> 0, ext |-> "mp4"]
  ELSE [title |-> ProbedTitle, cleanTitle |-> getOriginalFilename(outcome, n),
        platform |-> "youtube", duration |-> 200, ext |-> "mp4"]

\* outcomes of the stream-URL lookup and of the content-length probe
EstimateOutcomes ==
  {[kind |-> k, length |-> 0] :
      k \in {"stream_throws", "stream_empty", "head_throws", "head_nan"}}
  \cup {[kind |-> "length", length |-> n] : n \in {MAX_FILE_SIZE, 80000000}}

Unestimated == [estimated |-> FALSE, size |-> 0]

\* estimateFileSize: never throws; every failure gives estimated: false
estimateFileSize(outcome) ==
  IF outcome.kind = "length"
  THEN [estimated |-> TRUE, size |-> outcome.length]
  ELSE Unestimated

\* the pre-flight size gate of the callback_query handler
EstimateTooLarge(est) == est.estimated /\ est.size > MAX_FILE_SIZE

\* activeDownloads.get(key) || {}
GetOrEmpty(key) == IF key \in activeDownloads THEN obj[key] ELSE EmptyRecord

\* mutant: no clamp
ClampProgress_None(progress) == progress

\* progress = Math.min(progress, 100)
ClampProgress(progress) == Min(progress, 100)

\* the early return of updateProgress
GateBlocks(session, progress, now) ==
  \/ Abs(progress - OrDefault(session.lastProgress, -1)) < MIN_PROGRESS_CHANGE
  \/ /\ IsDefined(session.lastUpdateTime) /\ Val(session.lastUpdateTime) # 0
     /\ now - Val(session.lastUpdateTime) < PROGRESS_UPDATE_INTERVAL

\* Math.round(parseFloat(m[1])) of a matched progress line
ParseProgress(tenths) == (tenths + 5) \div 10

\* quality label and destination file of a format selection
QualityOf(action) ==
  CASE action \in AudioActions -> action
    [] action = "video_480" -> "480p"
    [] action = "video_720" -> "720p"
    [] action = "video_best" -> "Best Quality"
    [] OTHER -> ""
FilePath(cleanTitle, action) ==
  <<cleanTitle, IF StartsWithAudio(action) THEN "mp3" ELSE "mp4">>
\* the switch on the quality option leaves command undefined for other heights
HasCommand(action) == action \in FormatActions

\* ----------------------------------------------------- URL message handler
\* mutant: the text is not validated
MessageReceived_NoValidation(c, kind) ==
  /\ kind \in {"ignored", "malformed", "url"}
  /\ IF kind \in {"url", "malformed"}
     THEN \E u \in SessionIds :
            /\ url[u].pc = "idle"
            /\ \A v \in SessionIds : v < u => url[v].pc # "idle"
            /\ url' = [url EXCEPT ![u] = [pc |-> "checking", chat |-> c, sid |-> 0]]
            /\ sent' = <<Msg("sendMessage", "Checking link...", c, 0)>>
     ELSE /\ url' = url
          /\ sent' = <<>>
  /\ UNCHANGED <<activeDownloads, obj, nextSid, sessChat, cb, proc, edits, files,
                 clock, progressLog>>

\* bot.on('message'): text that is a command or empty is ignored; text that
\* is no URL is answered with the invalid notice; a URL starts the handler
MessageReceived(c, kind) ==
  /\ kind \in {"ignored", "malformed", "url"}
  /\ IF kind = "url"
     THEN \E u \in SessionIds :
            /\ url[u].pc = "idle"
            /\ \A v \in SessionIds : v < u => url[v].pc # "idle"
            /\ url' = [url EXCEPT ![u] = [pc |-> "checking", chat |-> c, sid |-> 0]]
            /\ sent' = <<Msg("sendMessage", "Checking link...", c, 0)>>
     ELSE /\ url' = url
          /\ sent' = IF kind = "malformed"
                     THEN <<Msg("sendMessage", "Invalid URL!", c, 0)>>
                     ELSE <<>>
  /\ UNCHANGED <<activeDownloads, obj, nextSid, sessChat, cb, proc, edits, files,
                 clock, progressLog>>

\* the catch block of the URL handler
UrlCatch(u) ==
  /\ url' = [url EXCEPT ![u] = DoneUrl]
  /\ sent' = <<Msg("sendMessage", "Error processing URL", url[u].chat, 0)>>

\* "Checking link..." was sent: probe, generate the id, store the session,
\* edit the message into the main menu
UrlChecked(u, outcome) ==
  /\ url[u].pc = "checking"
  /\ nextSid < MaxSessions
  /\ LET sid == nextSid + 1
         info == getVideoInfo(outcome, sid)
     IN /\ nextSid' = sid
        /\ activeDownloads' = activeDownloads \cup {SidKey(sid)}
        /\ obj' = [obj EXCEPT ![SidKey(sid)] =
                     [EmptyRecord EXCEPT
                        !.meta = Some([title |-> info.title,
                                       platform |-> info.platform,
                                       duration |-> info.duration]),
                        !.cleanTitle = Some(info.cleanTitle)]]
        /\ sessChat' = [sessChat EXCEPT ![sid] = url[u].chat]
        /\ url' = [url EXCEPT ![u].pc = "menu", ![u].sid = sid]
        /\ sent' = <<Msg("editMessageText", "main_menu", url[u].chat, sid)>>
  /\ UNCHANGED <<cb, proc, edits, files, clock, progressLog>>

\* the first sendMessage rejected
UrlCheckFailed(u) ==
  /\ url[u].pc = "checking"
  /\ UrlCatch(u)
  /\ UNCHANGED <<activeDownloads, obj, nextSid, sessChat, cb, proc, edits, files,
                 clock, progressLog>>

\* the menu edit was answered: activeDownloads.get(sessionId).progressMessageId = ...
UrlMenuShown(u) ==
  /\ url[u].pc = "menu"
  /\ IF SidKey(url[u].sid) \in activeDownloads
     THEN /\ obj' = [obj EXCEPT ![SidKey(url[u].sid)].progressMessageId =
                                  Some(url[u].sid)]
          /\ url' = [url EXCEPT ![u] = DoneUrl]
          /\ sent' = <<>>
     ELSE /\ obj' = obj
          /\ UrlCatch(u)
  /\ UNCHANGED <<activeDownloads, nextSid, sessChat, cb, proc, edits, files,
                 clock, progressLog>>

\* the menu edit rejected
UrlMenuFailed(u) ==
  /\ url[u].pc = "menu"
  /\ UrlCatch(u)
  /\ UNCHANGED <<activeDownloads, obj, nextSid, sessChat, cb, proc, edits, files,
                 clock, progressLog>>

\* ------------------------------------------------- callback_query handler
\* the catch block of the handler: report, then (once the report is sent)
\* delete the session
CbCatch(t) ==
  /\ cb' = [cb EXCEPT ![t].pc = "catchSend"]
  /\ sent' = <<Msg("sendMessage", "Error", cb[t].chat, 0)>>

\* mutant: the session check is skipped
CallbackQuery_NoCheck(t, action, sid, c) ==
  /\ cb[t].pc = "idle"
  /\ \A q \in 1..MaxPresses : q < t => cb[q].pc # "idle"
  /\ sent' = <<Msg("answerCallbackQuery", "", c, sid)>>
  /\ cb' = [cb EXCEPT ![t] = [pc |-> "ack", action |-> action, sid |-> sid,
                              chat |-> c, oversize |-> FALSE]]
  /\ UNCHANGED <<activeDownloads, obj, nextSid, sessChat, url, proc, edits, files,
                 clock, progressLog>>

\* a button press arrives: session check, alias the record, acknowledge
CallbackQuery(t, action, sid, c) ==
  /\ cb[t].pc = "idle"
  /\ \A q \in 1..MaxPresses : q < t => cb[q].pc # "idle"
  /\ IF SidKey(sid) \notin activeDownloads
     THEN /\ sent' = <<Msg("answerCallbackQuery", "Session expired", c, sid)>>
          /\ cb' = cb
     ELSE /\ sent' = <<Msg("answerCallbackQuery", "", c, sid)>>
          /\ cb' = [cb EXCEPT ![t] = [pc |-> "ack", action |-> action, sid |-> sid,
                                      chat |-> c, oversize |-> FALSE]]
  /\ UNCHANGED <<activeDownloads, obj, nextSid, sessChat, url, proc, edits, files,
                 clock, progressLog>>

\* the download path up to the edit that follows the size estimate:
\* file name, session.formatType / quality, activeDownloads.set, estimate, gate
CbDownloadPath(t, outcome) ==
  LET a == cb[t].action
      key == SidKey(cb[t].sid)
      est == estimateFileSize(outcome)
  IN IF ~StartsWithAudio(a) /\ ~StartsWithVideo(a)
     THEN \* finalFilename is undefined: path.join throws
          /\ CbCatch(t)
          /\ UNCHANGED <<activeDownloads, obj>>
     ELSE /\ obj' = [obj EXCEPT ![key].formatType = Some(a),
                                ![key].quality = Some(QualityOf(a))]
          /\ activeDownloads' = activeDownloads \cup {key}
          /\ IF EstimateTooLarge(est)
             THEN /\ cb' = [cb EXCEPT ![t].pc = "tooLargeEdit", ![t].oversize = TRUE]
                  /\ sent' = <<Msg("editMessageText", "File Too Large!", cb[t].chat,
                                   SizeMB(est.size))>>
             ELSE /\ cb' = [cb EXCEPT ![t].pc = "startEdit"]
                  /\ sent' = <<Msg("editMessageText", "Starting Download...",
                                   cb[t].chat,
                                   IF est.estimated THEN SizeMB(est.size) ELSE 0)>>

\* the acknowledge was answered: branch on the action
CbAcknowledged(t, outcome) ==
  /\ cb[t].pc = "ack"
  /\ LET a == cb[t].action
     IN CASE a \in MenuActions ->
               /\ cb' = [cb EXCEPT ![t].pc = "menuEdit"]
               /\ sent' = <<Msg("editMessageText", a, cb[t].chat, cb[t].sid)>>
               /\ UNCHANGED <<activeDownloads, obj>>
          [] a = "cancel" ->
               /\ cb' = [cb EXCEPT ![t].pc = "cancelEdit"]
               /\ sent' = <<Msg("editMessageText", "Operation canceled", cb[t].chat,
                                cb[t].sid)>>
               /\ UNCHANGED <<activeDownloads, obj>>
          [] OTHER -> CbDownloadPath(t, outcome)
  /\ UNCHANGED <<nextSid, sessChat, url, proc, edits, files, clock, progressLog>>

\* mutant: the menu branch stores the session again before returning
CbMenuShown_Stores(t) ==
  /\ cb[t].pc = "menuEdit"
  /\ activeDownloads' = activeDownloads \cup {SidKey(cb[t].sid)}
  /\ cb' = [cb EXCEPT ![t] = IdleCb]
  /\ sent' = <<>>
  /\ UNCHANGED <<obj, nextSid, sessChat, url, proc, edits, files, clock,
                 progressLog>>

\* the menu edit was answered: return
CbMenuShown(t) ==
  /\ cb[t].pc = "menuEdit"
  /\ cb' = [cb EXCEPT ![t] = IdleCb]
  /\ sent' = <<>>
  /\ UNCHANGED <<activeDownloads, obj, nextSid, sessChat, url, proc, edits, files,
                 clock, progressLog>>

\* the "Operation canceled" edit was answered: delete the session
CbCancelShown(t) ==
  /\ cb[t].pc = "cancelEdit"
  /\ activeDownloads' = activeDownloads \ {SidKey(cb[t].sid)}
  /\ cb' = [cb EXCEPT ![t] = IdleCb]
  /\ sent' = <<>>
  /\ UNCHANGED <<obj, nextSid, sessChat, url, proc, edits, files, clock,
                 progressLog>>

\* mutant: the size rejection cleans the session up
CbTooLargeShown_Deletes(t) ==
  /\ cb[t].pc = "tooLargeEdit"
  /\ activeDownloads' = activeDownloads \ {SidKey(cb[t].sid)}
  /\ cb' = [cb EXCEPT ![t] = IdleCb]
  /\ sent' = <<>>
  /\ UNCHANGED <<obj, nextSid, sessChat, url, proc, edits, files, clock,
                 progressLog>>

\* the "File Too Large!" edit was answered: return, the session stays
CbTooLargeShown(t) ==
  /\ cb[t].pc = "tooLargeEdit"
  /\ cb' = [cb EXCEPT ![t] = IdleCb]
  /\ sent' = <<>>
  /\ UNCHANGED <<activeDownloads, obj, nextSid, sessChat, url, proc, edits, files,
                 clock, progressLog>>

\* mutant: the handle is not stored on the session
SpawnDownload_NoHandle(t, p) ==
  LET key == SidKey(cb[t].sid)
  IN /\ proc' = [proc EXCEPT ![p] =
                   [FreeProc EXCEPT !.pc = "running", !.sid = cb[t].sid,
                                    !.chat = cb[t].chat,
                                    !.path = FilePath(Val(obj[key].cleanTitle),
                                                      cb[t].action),
                                    !.isAudio = StartsWithAudio(cb[t].action),
                                    !.started = clock]]
     /\ obj' = obj
     /\ activeDownloads' = activeDownloads \cup {key}
     /\ cb' = [cb EXCEPT ![t] = IdleCb]
     /\ sent' = <<>>

\* exec(command); session.downloadProcess = ytDlpProcess; activeDownloads.set;
\* the line, close and error listeners are attached
SpawnDownload(t, p) ==
  LET key == SidKey(cb[t].sid)
  IN /\ proc' = [proc EXCEPT ![p] =
                   [FreeProc EXCEPT !.pc = "running", !.sid = cb[t].sid,
                                    !.chat = cb[t].chat,
                                    !.path = FilePath(Val(obj[key].cleanTitle),
                                                      cb[t].action),
                                    !.isAudio = StartsWithAudio(cb[t].action),
                                    !.started = clock]]
     /\ obj' = [obj EXCEPT ![key].downloadProcess = Some(p)]
     /\ activeDownloads' = activeDownloads \cup {key}
     /\ cb' = [cb EXCEPT ![t] = IdleCb]
     /\ sent' = <<>>

\* the "Starting Download..." edit was answered: start the child process
CbStartShown(t) ==
  /\ cb[t].pc = "startEdit"
  /\ IF HasCommand(cb[t].action)
     THEN \E p \in 1..MaxProcs :
            /\ proc[p].pc = "free"
            /\ \A q \in 1..MaxProcs : q < p => proc[q].pc # "free"
            /\ SpawnDownload(t, p)
     ELSE \* exec(undefined) throws
          /\ CbCatch(t)
          /\ UNCHANGED <<activeDownloads, obj, proc>>
  /\ UNCHANGED <<nextSid, sessChat, url, edits, files, clock, progressLog>>

\* an awaited messaging call of the try block rejected
CbRejected(t) ==
  /\ cb[t].pc \in {"ack", "menuEdit", "cancelEdit", "tooLargeEdit", "startEdit"}
  /\ CbCatch(t)
  /\ UNCHANGED <<activeDownloads, obj, nextSid, sessChat, url, proc, edits, files,
                 clock, progressLog>>

\* the error report of the catch block was sent: delete the session
CbCatchSent(t) ==
  /\ cb[t].pc = "catchSend"
  /\ activeDownloads' = activeDownloads \ {SidKey(cb[t].sid)}
  /\ cb' = [cb EXCEPT ![t] = IdleCb]
  /\ sent' = <<>>
  /\ UNCHANGED <<obj, nextSid, sessChat, url, proc, edits, files, clock,
                 progressLog>>

\* the error report itself rejected: the rejection leaves the handler, the
\* delete is not reached
CbCatchRejected(t) ==
  /\ cb[t].pc = "catchSend"
  /\ cb' = [cb EXCEPT ![t] = IdleCb]
  /\ sent' = <<>>
  /\ UNCHANGED <<activeDownloads, obj, nextSid, sessChat, url, proc, edits, files,
                 clock, progressLog>>

\* ------------------------------------------------------- progress reporter
\* Date.now() as read by a handler: the clock does not run backwards
Nows == {StartMs + k * TickMs : k \in 0..MaxTicks}
ReadClock(now) == now \in Nows /\ now >= clock /\ clock' = now

\* the edit of updateProgress resolved: session.lastProgress = progress,
\* session.lastUpdateTime = now, activeDownloads.set(chatId, session)
RecordProgress(c, progress, now) ==
  /\ obj' = [obj EXCEPT ![ChatKey(c)].lastProgress = Some(progress),
                        ![ChatKey(c)].lastUpdateTime = Some(now)]
  /\ activeDownloads' = activeDownloads \cup {ChatKey(c)}

\* rl.on('line'): a progress line is parsed and updateProgress is called
\* without await; past the gate the edit is issued and left in flight
OnLine(p, tenths, now) ==
  /\ proc[p].pc = "running" /\ ~proc[p].errored
  /\ proc[p].lines < MaxLines
  /\ ReadClock(now)
  /\ LET c == proc[p].chat
         progress == ClampProgress(ParseProgress(tenths))
     IN IF GateBlocks(GetOrEmpty(ChatKey(c)), progress, now)
        THEN /\ sent' = <<>>
             /\ UNCHANGED <<edits, progressLog>>
        ELSE /\ sent' = <<Msg("editMessageText", "Download Progress", c, progress)>>
             /\ edits' = edits \cup {[chat |-> c, progress |-> progress, now |-> now]}
             /\ progressLog' = [progressLog EXCEPT ![p] =
                                  Append(@, [pct |-> progress, at |-> now,
                                             final |-> FALSE])]
  /\ proc' = [proc EXCEPT ![p].lines = @ + 1]
  /\ UNCHANGED <<activeDownloads, obj, nextSid, sessChat, url, cb, files>>

\* the edit of an un-awaited updateProgress call was answered
EditResolved(e) ==
  /\ e \in edits
  /\ edits' = edits \ {e}
  /\ RecordProgress(e.chat, e.progress, e.now)
  /\ sent' = <<>>
  /\ UNCHANGED <<nextSid, sessChat, url, cb, proc, files, clock, progressLog>>

\* mutant: a rejected edit gives the session up
EditRejected_Fatal(e) ==
  /\ e \in edits
  /\ edits' = edits \ {e}
  /\ sent' = <<>>
  /\ activeDownloads' = {k \in activeDownloads : k[1] # "sessionId"}
  /\ UNCHANGED <<obj, nextSid, sessChat, url, cb, proc, files, clock, progressLog>>

\* the edit rejected ("message is not modified" or any other error): the
\* catch of updateProgress swallows it, the throttle state is not written
EditRejected(e) ==
  /\ e \in edits
  /\ edits' = edits \ {e}
  /\ sent' = <<>>
  /\ UNCHANGED <<activeDownloads, obj, nextSid, sessChat, url, cb, proc, files,
                 clock, progressLog>>

\* ---------------------------------------------------------- close listener
NonZeroCodes == ExitCodes \ {0}
\* the listener has ended: what remains of the process for the record
ClosedProc(p) ==
  [FreeProc EXCEPT !.pc = "closed", !.sid = proc[p].sid, !.chat = proc[p].chat,
                   !.path = proc[p].path, !.code = proc[p].code,
                   !.size = proc[p].size, !.outcome = proc[p].outcome,
                   !.uploaded = proc[p].uploaded]

\* mutant: cleanup unlinks nothing
cleanupFiles_Skips(fs, file) == fs

\* cleanupFiles(file): if (file && fs.existsSync(file)) fs.unlinkSync(file);
\* fs is the download folder before, the result the folder after
cleanupFiles(fs, file) ==
  IF file # Undefined /\ IsDefined(fs[file])
  THEN [fs EXCEPT ![file] = Undefined]
  ELSE fs

\* mutant: the finally block forgets the file
CloseFinally_KeepFile(p, fs) ==
  /\ files' = fs
  /\ activeDownloads' = activeDownloads \ {SidKey(proc[p].sid)}
  /\ proc' = [proc EXCEPT ![p] = ClosedProc(p)]

\* the finally block: cleanupFiles(filePath), activeDownloads.delete(sessionId).
\* fs is the download folder as the handler finds it
CloseFinally(p, fs) ==
  /\ files' = cleanupFiles(fs, proc[p].path)
  /\ activeDownloads' = activeDownloads \ {SidKey(proc[p].sid)}
  /\ proc' = [proc EXCEPT ![p] = ClosedProc(p)]

\* the catch block: the failure is reported by editing the progress message
CloseCatch(p, reason, num) ==
  /\ proc' = [proc EXCEPT ![p].pc = "catchEdit", ![p].outcome = reason]
  /\ sent' = <<Msg("editMessageText", "Download Failed: " \o reason,
                   proc[p].chat, num)>>

\* sendChatAction(upload_audio | upload_video)
ChatActionMsg(p) ==
  Msg("sendChatAction", IF proc[p].isAudio THEN "upload_audio" ELSE "upload_video",
      proc[p].chat, 0)

\* mutant: the ceiling itself counts as too large
Outcome_AtCeiling(code, file) ==
  CASE code # 0 -> "Download failed with code"
    [] ~IsDefined(file) -> "File not found after download"
    [] Val(file) = 0 -> "Downloaded file is empty"
    [] Val(file) >= MAX_FILE_SIZE -> "File Too Large!"
    [] OTHER -> "success"

\* the outcome of the close listener's checks
Outcome(code, file) ==
  CASE code # 0 -> "Download failed with code"
    [] ~IsDefined(file) -> "File not found after download"
    [] Val(file) = 0 -> "Downloaded file is empty"
    [] Val(file) > MAX_FILE_SIZE -> "File Too Large!"
    [] OTHER -> "success"

\* ytDlpProcess.on('close'): the process has exited with `code`, having
\* written `written` to its destination (or nothing); the checks run, and on
\* success updateProgress(100) is called and awaited
OnClose(p, code, written, now) ==
  /\ proc[p].pc = "running"
  /\ (proc[p].errored \/ proc[p].killed) => code \in NonZeroCodes
  /\ ReadClock(now)
  /\ LET c == proc[p].chat
         fs == IF IsDefined(written)
               THEN [files EXCEPT ![proc[p].path] = written] ELSE files
         outcome == Outcome(code, fs[proc[p].path])
         exited == [proc[p] EXCEPT !.code = code, !.size = fs[proc[p].path],
                                   !.outcome = outcome, !.now = now]
     IN /\ files' = fs
        /\ CASE outcome = "success" ->
                  IF GateBlocks(GetOrEmpty(ChatKey(c)), 100, now)
                  THEN /\ proc' = [proc EXCEPT ![p] = [exited EXCEPT !.pc = "chatAction"]]
                       /\ sent' = <<ChatActionMsg(p)>>
                       /\ UNCHANGED progressLog
                  ELSE /\ proc' = [proc EXCEPT ![p] = [exited EXCEPT !.pc = "progress100"]]
                       /\ sent' = <<Msg("editMessageText", "Download Progress", c, 100)>>
                       /\ progressLog' = [progressLog EXCEPT ![p] =
                                            Append(@, [pct |-> 100, at |-> now,
                                                       final |-> TRUE])]
             [] outcome = "File Too Large!" ->
                  /\ proc' = [proc EXCEPT ![p] = [exited EXCEPT !.pc = "tooLargeEdit"]]
                  /\ sent' = <<Msg("editMessageText", "File Too Large!", c,
                                   SizeMB(Val(fs[proc[p].path])))>>
                  /\ UNCHANGED progressLog
             [] OTHER ->
                  /\ proc' = [proc EXCEPT ![p] = [exited EXCEPT !.pc = "catchEdit"]]
                  /\ sent' = <<Msg("editMessageText", "Download Failed: " \o outcome,
                                   c, code)>>
                  /\ UNCHANGED progressLog
  /\ UNCHANGED <<activeDownloads, obj, nextSid, sessChat, url, cb, edits>>

\* the awaited updateProgress(100) returned: its edit resolved (the throttle
\* state is written) or rejected (swallowed); then sendChatAction
CloseProgressDone(p, ok) ==
  /\ proc[p].pc = "progress100"
  /\ IF ok THEN RecordProgress(proc[p].chat, 100, proc[p].now)
           ELSE UNCHANGED <<activeDownloads, obj>>
  /\ proc' = [proc EXCEPT ![p].pc = "chatAction"]
  /\ sent' = <<ChatActionMsg(p)>>
  /\ UNCHANGED <<nextSid, sessChat, url, cb, edits, files, clock, progressLog>>

\* sendChatAction resolved: sendAudio / sendVideo of the file
CloseChatActionDone(p) ==
  /\ proc[p].pc = "chatAction"
  /\ proc' = [proc EXCEPT ![p].pc = "upload"]
  /\ sent' = <<Msg(IF proc[p].isAudio THEN "sendAudio" ELSE "sendVideo",
                   "Download Complete!", proc[p].chat,
                   IF IsDefined(files[proc[p].path])
                   THEN SizeMB(Val(files[proc[p].path])) ELSE -1)>>
  /\ UNCHANGED <<activeDownloads, obj, nextSid, sessChat, url, cb, edits, files,
                 clock, progressLog>>

\* the upload resolved: deleteMessage of the progress message
CloseUploaded(p) ==
  /\ proc[p].pc = "upload"
  /\ proc' = [proc EXCEPT ![p].pc = "deleteMsg", ![p].uploaded = TRUE]
  /\ sent' = <<Msg("deleteMessage", "", proc[p].chat, proc[p].sid)>>
  /\ UNCHANGED <<activeDownloads, obj, nextSid, sessChat, url, cb, edits, files,
                 clock, progressLog>>

\* an awaited call of the try block rejected: the catch block
CloseRejected(p) ==
  /\ proc[p].pc \in {"tooLargeEdit", "chatAction", "upload"}
  /\ CloseCatch(p, "messaging call rejected", 0)
  /\ UNCHANGED <<activeDownloads, obj, nextSid, sessChat, url, cb, edits, files,
                 clock, progressLog>>

\* the listener ends: after the too-large edit resolved, after deleteMessage
\* resolved or rejected, after the catch block's edit resolved or rejected;
\* the finally block runs in each case
CloseEnd(p) ==
  /\ proc[p].pc \in {"tooLargeEdit", "deleteMsg", "catchEdit"}
  /\ CloseFinally(p, files)
  /\ sent' = <<>>
  /\ UNCHANGED <<obj, nextSid, sessChat, url, cb, edits, clock, progressLog>>

\* mutant: the error listener reports and leaves the session in the store
OnError_KeepSession(p) ==
  /\ proc[p].pc = "running" /\ ~proc[p].errored /\ proc[p].lines = 0
  /\ proc' = [proc EXCEPT ![p].errored = TRUE]
  /\ sent' = <<Msg("sendMessage", "Download Error", proc[p].chat, 0)>>
  /\ UNCHANGED <<activeDownloads, obj, nextSid, sessChat, url, cb, edits, files,
                 clock, progressLog>>

\* ytDlpProcess.on('error'): reported by a new message, session deleted
OnError(p) ==
  /\ proc[p].pc = "running" /\ ~proc[p].errored /\ proc[p].lines = 0
  /\ proc' = [proc EXCEPT ![p].errored = TRUE]
  /\ sent' = <<Msg("sendMessage", "Download Error", proc[p].chat, 0)>>
  /\ activeDownloads' = activeDownloads \ {SidKey(proc[p].sid)}
  /\ UNCHANGED <<obj, nextSid, sessChat, url, cb, edits, files, clock, progressLog>>

\* ------------------------------------------------------------ /cancel
\* the key /cancel looks the session up under
CancelKey(c) == ChatKey(c)

\* mutant: the else branch deletes the chat's entry as well
CancelCommand_AlwaysDeletes(c) ==
  LET key == CancelKey(c)
  IN /\ IF key \in activeDownloads /\ IsDefined(obj[key].downloadProcess)
        THEN /\ proc' = [proc EXCEPT ![Val(obj[key].downloadProcess)].killed =
                           (@ \/ proc[Val(obj[key].downloadProcess)].pc = "running")]
             /\ sent' = <<Msg("sendMessage", "Download canceled!", c, 0)>>
        ELSE /\ sent' = <<Msg("sendMessage", "No active download to cancel", c, 0)>>
             /\ UNCHANGED proc
     /\ activeDownloads' = activeDownloads \ {key}
     /\ UNCHANGED <<obj, nextSid, sessChat, url, cb, edits, files, clock,
                    progressLog>>

\* bot.onText(/\/cancel/)
CancelCommand(c) ==
  LET key == CancelKey(c)
  IN /\ IF key \in activeDownloads /\ IsDefined(obj[key].downloadProcess)
        THEN /\ proc' = [proc EXCEPT ![Val(obj[key].downloadProcess)].killed =
                           (@ \/ proc[Val(obj[key].downloadProcess)].pc = "running")]
             /\ sent' = <<Msg("sendMessage", "Download canceled!", c, 0)>>
             /\ activeDownloads' = activeDownloads \ {key}
        ELSE /\ sent' = <<Msg("sendMessage", "No active download to cancel", c, 0)>>
             /\ UNCHANGED <<proc, activeDownloads>>
     /\ UNCHANGED <<obj, nextSid, sessChat, url, cb, edits, files, clock,
                    progressLog>>

\* ------------------------------------------- an external tool that hangs
\* execSync is called without a timeout option: when the tool never exits
\* the call never returns and, being synchronous, nothing else of the
\* program runs any more
EventLoopBlocked ==
  \/ \E u \in SessionIds : url[u].pc = "blocked"
  \/ \E t \in 1..MaxPresses : cb[t].pc = "blocked"

\* getVideoInfo / getOriginalFilename: the tool never exits
UrlProbeHangs(u) ==
  /\ url[u].pc = "checking"
  /\ url' = [url EXCEPT ![u].pc = "blocked"]
  /\ sent' = <<>>
  /\ UNCHANGED <<activeDownloads, obj, nextSid, sessChat, cb, proc, edits, files,
                 clock, progressLog>>

\* estimateFileSize: the tool (or curl) never exits; the session fields were
\* written just before the estimate
CbEstimateHangs(t) ==
  /\ cb[t].pc = "ack"
  /\ StartsWithAudio(cb[t].action) \/ StartsWithVideo(cb[t].action)
  /\ obj' = [obj EXCEPT ![SidKey(cb[t].sid)].formatType = Some(cb[t].action),
                        ![SidKey(cb[t].sid)].quality = Some(QualityOf(cb[t].action))]
  /\ activeDownloads' = activeDownloads \cup {SidKey(cb[t].sid)}
  /\ cb' = [cb EXCEPT ![t].pc = "blocked"]
  /\ sent' = <<>>
  /\ UNCHANGED <<nextSid, sessChat, url, proc, edits, files, clock, progressLog>>

Next ==
  /\ ~EventLoopBlocked
  /\ \/ \E c \in Chats, k \in {"ignored", "malformed", "url"} : MessageReceived(c, k)
     \/ \E u \in SessionIds, o \in ProbeOutcomes : UrlChecked(u, o)
     \/ \E u \in SessionIds : UrlCheckFailed(u)
     \/ \E u \in SessionIds : UrlMenuShown(u)
     \/ \E u \in SessionIds : UrlMenuFailed(u)
     \/ \E t \in 1..MaxPresses, a \in Actions, sid \in SessionIds, c \in Chats :
           CallbackQuery(t, a, sid, c)
     \/ \E t \in 1..MaxPresses, o \in EstimateOutcomes : CbAcknowledged(t, o)
     \/ \E t \in 1..MaxPresses : CbMenuShown(t)
     \/ \E t \in 1..MaxPresses : CbCancelShown(t)
     \/ \E t \in 1..MaxPresses : CbTooLargeShown(t)
     \/ \E t \in 1..MaxPresses : CbStartShown(t)
     \/ \E t \in 1..MaxPresses : CbRejected(t)
     \/ \E t \in 1..MaxPresses : CbCatchSent(t)
     \/ \E t \in 1..MaxPresses : CbCatchRejected(t)
     \/ \E p \in 1..MaxProcs, l \in LineTenths, now \in Nows : OnLine(p, l, now)
     \/ \E e \in edits : EditResolved(e)
     \/ \E e \in edits : EditRejected(e)
     \/ \E p \in 1..MaxProcs, code \in ExitCodes, now \in Nows,
           w \in {Undefined} \cup {Some(n) : n \in FileSizes} : OnClose(p, code, w, now)
     \/ \E p \in 1..MaxProcs, ok \in BOOLEAN : CloseProgressDone(p, ok)
     \/ \E p \in 1..MaxProcs : CloseChatActionDone(p)
     \/ \E p \in 1..MaxProcs : CloseUploaded(p)
     \/ \E p \in 1..MaxProcs : CloseRejected(p)
     \/ \E p \in 1..MaxProcs : CloseEnd(p)
     \/ \E p \in 1..MaxProcs : OnError(p)
     \/ \E c \in Chats : CancelCommand(c)
     \/ \E u \in SessionIds : UrlProbeHangs(u)
     \/ \E t \in 1..MaxPresses : CbEstimateHangs(t)

Spec == Init /\ [][Next]_vars

\* -------------------------------------------------- a download in flight
\* The state after one URL message was handled (probe succeeded, menu shown)
\* and a format was selected and its process spawned (a state of Spec).
SessionRecord(title, cleanTitle) ==
  [EmptyRecord EXCEPT
     !.meta = Some([title |-> title, platform |-> "youtube", duration |-> 200]),
     !.cleanTitle = Some(cleanTitle),
     !.progressMessageId = Some(1)]

InitDownload ==
  \E a \in {"audio_192", "video_best"} :
    /\ activeDownloads = {SidKey(1)}
    /\ obj = [k \in Keys |->
               IF k = SidKey(1)
               THEN [SessionRecord(ProbedTitle, ProbedTitle) EXCEPT
                       !.formatType = Some(a), !.quality = Some(QualityOf(a)),
                       !.downloadProcess = Some(1)]
               ELSE EmptyRecord]
    /\ nextSid = 1
    /\ sessChat = [s \in SessionIds |-> IF s = 1 THEN "chatA" ELSE ""]
    /\ url = [u \in SessionIds |-> IF u = 1 THEN DoneUrl ELSE IdleUrl]
    /\ cb = [t \in 1..MaxPresses |-> IdleCb]
    /\ proc = [p \in 1..MaxProcs |->
                IF p = 1
                THEN [FreeProc EXCEPT !.pc = "running", !.sid = 1, !.chat = "chatA",
                                      !.path = FilePath(ProbedTitle, a),
                                      !.isAudio = StartsWithAudio(a),
                                      !.started = StartMs]
                ELSE FreeProc]
    /\ edits = {}
    /\ files = [f \in Paths |-> Undefined]
    /\ clock = StartMs
    /\ progressLog = [p \in 1..MaxProcs |-> <<>>]
    /\ sent = <<>>

\* ------------------------------------------------ a session with its menu
\* The state after one URL message was handled: the session is stored and its
\* main menu is shown (a state of Spec).  The other session ids are not in
\* the store.
InitButtons ==
  /\ activeDownloads = {SidKey(1)}
  /\ obj = [k \in Keys |->
             IF k = SidKey(1) THEN SessionRecord(ProbedTitle, ProbedTitle)
             ELSE EmptyRecord]
  /\ nextSid = 1
  /\ sessChat = [s \in SessionIds |-> IF s = 1 THEN "chatA" ELSE ""]
  /\ url = [u \in SessionIds |-> IF u = 1 THEN DoneUrl ELSE IdleUrl]
  /\ cb = [t \in 1..MaxPresses |-> IdleCb]
  /\ proc = [p \in 1..MaxProcs |-> FreeProc]
  /\ edits = {}
  /\ files = [f \in Paths |-> Undefined]
  /\ clock = StartMs
  /\ progressLog = [p \in 1..MaxProcs |-> <<>>]
  /\ sent = <<>>

NextButtons ==
  \/ \E t \in 1..MaxPresses, a \in Actions, sid \in SessionIds, c \in Chats :
        CallbackQuery(t, a, sid, c)
  \/ \E t \in 1..MaxPresses, o \in EstimateOutcomes : CbAcknowledged(t, o)
  \/ \E t \in 1..MaxPresses : CbMenuShown(t)
  \/ \E t \in 1..MaxPresses : CbCancelShown(t)
  \/ \E t \in 1..MaxPresses : CbTooLargeShown(t)
  \/ \E t \in 1..MaxPresses : CbStartShown(t)
  \/ \E t \in 1..MaxPresses : CbRejected(t)
  \/ \E t \in 1..MaxPresses : CbCatchSent(t)
  \/ \E t \in 1..MaxPresses : CbCatchRejected(t)

SpecButtons == InitButtons /\ [][NextButtons]_vars

NextDownload ==
  \/ \E p \in 1..MaxProcs, l \in LineTenths, now \in Nows : OnLine(p, l, now)
  \/ \E e \in edits : EditResolved(e)
  \/ \E e \in edits : EditRejected(e)
  \/ \E p \in 1..MaxProcs, code \in ExitCodes, now \in Nows,
        w \in {Undefined} \cup {Some(n) : n \in FileSizes} : OnClose(p, code, w, now)
  \/ \E p \in 1..MaxProcs, ok \in BOOLEAN : CloseProgressDone(p, ok)
  \/ \E p \in 1..MaxProcs : CloseChatActionDone(p)
  \/ \E p \in 1..MaxProcs : CloseUploaded(p)
  \/ \E p \in 1..MaxProcs : CloseRejected(p)
  \/ \E p \in 1..MaxProcs : CloseEnd(p)
  \/ \E p \in 1..MaxProcs : OnError(p)
  \/ \E c \in Chats : CancelCommand(c)

SpecDownload == InitDownload /\ [][NextDownload]_vars

\* ------------------------------------- two sessions downloading at once
\* The state after the same URL was sent twice in one chat and the same
\* format button was pressed under each menu (a state of Spec): sessions 1
\* and 2 are stored, each with its own child process running.
InitTwoDownloads ==
  \E a \in {"audio_192"} :
    /\ activeDownloads = {SidKey(1), SidKey(2)}
    /\ obj = [k \in Keys |->
               IF k \in {SidKey(1), SidKey(2)}
               THEN [SessionRecord(ProbedTitle, ProbedTitle) EXCEPT
                       !.formatType = Some(a), !.quality = Some(QualityOf(a)),
                       !.progressMessageId = Some(k[2]),
                       !.downloadProcess = Some(k[2])]
               ELSE EmptyRecord]
    /\ nextSid = 2
    /\ sessChat = [s \in SessionIds |-> IF s \in {1, 2} THEN "chatA" ELSE ""]
    /\ url = [u \in SessionIds |-> IF u \in {1, 2} THEN DoneUrl ELSE IdleUrl]
    /\ cb = [t \in 1..MaxPresses |-> IdleCb]
    /\ proc = [p \in 1..MaxProcs |->
                IF p \in {1, 2}
                THEN [FreeProc EXCEPT !.pc = "running", !.sid = p, !.chat = "chatA",
                                      !.path = FilePath(ProbedTitle, a),
                                      !.isAudio = StartsWithAudio(a),
                                      !.started = StartMs]
                ELSE FreeProc]
    /\ edits = {}
    /\ files = [f \in Paths |-> Undefined]
    /\ clock = StartMs
    /\ progressLog = [p \in 1..MaxProcs |-> <<>>]
    /\ sent = <<>>

\* the progress reporters of the two downloads
NextTwoReporters ==
  \/ \E p \in 1..MaxProcs, l \in LineTenths, now \in Nows : OnLine(p, l, now)
  \/ \E e \in edits : EditResolved(e)
  \/ \E e \in edits : EditRejected(e)

SpecTwoReporters == InitTwoDownloads /\ [][NextTwoReporters]_vars

\* the close listeners of the two downloads
NextTwoCloses ==
  \/ \E p \in 1..MaxProcs, code \in ExitCodes, now \in Nows,
        w \in {Undefined} \cup {Some(n) : n \in FileSizes} : OnClose(p, code, w, now)
  \/ \E p \in 1..MaxProcs, ok \in BOOLEAN : CloseProgressDone(p, ok)
  \/ \E p \in 1..MaxProcs : CloseChatActionDone(p)
  \/ \E p \in 1..MaxProcs : CloseUploaded(p)
  \/ \E p \in 1..MaxProcs : CloseRejected(p)
  \/ \E p \in 1..MaxProcs : CloseEnd(p)

SpecTwoCloses == InitTwoDownloads /\ [][NextTwoCloses]_vars

\* ------------------------------------------------- the URL handler alone
NextUrl ==
  \/ \E c \in Chats, k \in {"ignored", "malformed", "url"} : MessageReceived(c, k)
  \/ \E u \in SessionIds, o \in ProbeOutcomes : UrlChecked(u, o)
  \/ \E u \in SessionIds : UrlCheckFailed(u)
  \/ \E u \in SessionIds : UrlMenuShown(u)
  \/ \E u \in SessionIds : UrlMenuFailed(u)

SpecUrl == Init /\ [][NextUrl]_vars

\* --------------------- one URL message, then one button handler at a time
NextProbe ==
  \/ \E c \in Chats, k \in {"ignored", "malformed", "url"} : MessageReceived(c, k)
  \/ \E o \in ProbeOutcomes : UrlChecked(1, o)
  \/ UrlCheckFailed(1)
  \/ UrlMenuShown(1)
  \/ UrlMenuFailed(1)
  \/ \E a \in Actions, sid \in SessionIds, c \in Chats : CallbackQuery(1, a, sid, c)
  \/ \E o \in EstimateOutcomes : CbAcknowledged(1, o)
  \/ CbMenuShown(1)
  \/ CbCancelShown(1)
  \/ CbTooLargeShown(1)
  \/ CbStartShown(1)
  \/ CbRejected(1)
  \/ CbCatchSent(1)
  \/ CbCatchRejected(1)

SpecProbe == Init /\ [][NextProbe]_vars

\* the same with the tools allowed to hang; fairness: the handler goes on
\* once its awaited call is answered, unless the program is blocked
NextProbeBlocking ==
  /\ ~EventLoopBlocked
  /\ \/ NextProbe
     \/ UrlProbeHangs(1)
     \/ CbEstimateHangs(1)

UrlProbeStep ==
  /\ ~EventLoopBlocked
  /\ \/ \E o \in ProbeOutcomes : UrlChecked(1, o)
     \/ UrlCheckFailed(1)
     \/ UrlProbeHangs(1)

CbEstimateStep ==
  /\ ~EventLoopBlocked
  /\ cb[1].pc = "ack"
  /\ \/ \E o \in EstimateOutcomes : CbAcknowledged(1, o)
     \/ CbRejected(1)
     \/ CbEstimateHangs(1)

SpecProbeFair ==
  /\ Init /\ [][NextProbeBlocking]_vars
  /\ WF_vars(UrlProbeStep) /\ WF_vars(CbEstimateStep)

\* fairness: every messaging call the close listener awaits is answered
\* (resolved or rejected)
CloseStep(p) ==
  \/ \E ok \in BOOLEAN : CloseProgressDone(p, ok)
  \/ CloseChatActionDone(p)
  \/ CloseUploaded(p)
  \/ CloseRejected(p)
  \/ CloseEnd(p)

SpecDownloadFair ==
  SpecDownload /\ \A p \in 1..MaxProcs : WF_vars(CloseStep(p))

\* ================================================================ claims
Procs == 1..MaxProcs
Presses == 1..MaxPresses
ClosePcs == {"progress100", "chatAction", "upload", "deleteMsg", "tooLargeEdit",
             "catchEdit"}
CleanedUp(p) ==
  /\ proc[p].pc = "closed"
  /\ files[proc[p].path] = Undefined
  /\ SidKey(proc[p].sid) \notin activeDownloads

\* C1: once the download process has exited, whatever the exit code and
\* whether or not the upload, the progress-message deletion or an edit fails,
\* the close listener ends with the destination file deleted and the session
\* removed; the listener never removes the session while the file is left.
C1_CleanupOnEveryExit ==
  /\ [][\A p \in Procs :
          (proc[p].pc # "closed" /\ proc'[p].pc = "closed")
             => /\ files'[proc[p].path] = Undefined
                /\ SidKey(proc[p].sid) \notin activeDownloads']_vars
  /\ \A p \in Procs : (proc[p].pc \in ClosePcs) ~> CleanedUp(p)

\* C1 witness: cleanup done although a messaging call of the listener failed
C1_Witness ==
  \E p \in Procs : CleanedUp(p) /\ proc[p].outcome = "messaging call rejected"

\* C2 (as claimed): a session never has two live download processes, and a
\* handle stored on a session is never replaced by another one.
RunningFor(s) == {p \in Procs : proc[p].pc = "running" /\ proc[p].sid = s}
C2_OneProcessPerSession ==
  /\ [](\A s \in SessionIds : Cardinality(RunningFor(s)) <= 1)
  /\ [][\A s \in SessionIds :
          IsDefined(obj[SidKey(s)].downloadProcess)
             => obj'[SidKey(s)].downloadProcess = obj[SidKey(s)].downloadProcess]_vars

\* C3 (as claimed): /cancel issued while a session of the chat has its process
\* in flight terminates the process, removes the session and confirms.
InFlight(c, s) ==
  /\ sessChat[s] = c
  /\ SidKey(s) \in activeDownloads
  /\ IsDefined(obj[SidKey(s)].downloadProcess)
  /\ proc[Val(obj[SidKey(s)].downloadProcess)].pc = "running"
C3_CancelTerminates ==
  [][\A c \in Chats :
       (CancelCommand(c) /\ \E s \in SessionIds : InFlight(c, s))
          => /\ sent' = <<Msg("sendMessage", "Download canceled!", c, 0)>>
             /\ \A s \in SessionIds :
                  InFlight(c, s)
                     => /\ proc'[Val(obj[SidKey(s)].downloadProcess)].killed
                        /\ SidKey(s) \notin activeDownloads']_vars

\* C4: a button press whose session key is not in the store is answered with
\* the session-expired notice and changes nothing else, whatever its action.
C4_ExpiredPressHasNoEffect ==
  [][\A t \in Presses, a \in Actions, sid \in SessionIds, c \in Chats :
       (CallbackQuery(t, a, sid, c) /\ SidKey(sid) \notin activeDownloads)
          => /\ sent' = <<Msg("answerCallbackQuery", "Session expired", c, sid)>>
             /\ UNCHANGED <<activeDownloads, obj, cb, proc, files, edits>>]_vars

\* C4 witness: the expired notice answers a press on a session that was
\* removed from the store
C4_Witness ==
  /\ SidKey(1) \notin activeDownloads
  /\ Len(sent) = 1 /\ sent[1].text = "Session expired" /\ sent[1].num = 1

\* the steps of handler t
StepOf(t) == cb'[t] # cb[t]
Oversize(o) == o.kind = "length" /\ o.length > MAX_FILE_SIZE
TooLargeNotice(c, o) ==
  <<Msg("editMessageText", "File Too Large!", c, SizeMB(o.length))>>

\* C5 (as claimed): an estimate above the ceiling spawns nothing, shows the
\* too-large message with the estimate, and the handler leaves the session
\* in the store.
C5_OversizeKeepsSession ==
  [][\A t \in Presses :
       /\ \A o \in EstimateOutcomes :
            (CbAcknowledged(t, o) /\ cb[t].action \in FormatActions /\ Oversize(o))
               => /\ sent' = TooLargeNotice(cb[t].chat, o)
                  /\ cb'[t].oversize
       /\ (cb[t].oversize /\ StepOf(t))
            => /\ proc' = proc
               /\ SidKey(cb[t].sid) \in activeDownloads
                    => SidKey(cb[t].sid) \in activeDownloads']_vars

\* C5 (amended): an estimate above the ceiling spawns nothing and the
\* too-large message with the estimate is issued; when that edit is answered
\* the handler returns and leaves the store as it is; when that edit is
\* rejected the catch block reports an error and then deletes the session.
C5_OversizeAmended ==
  [][\A t \in Presses :
       /\ \A o \in EstimateOutcomes :
            (CbAcknowledged(t, o) /\ cb[t].action \in FormatActions /\ Oversize(o))
               => /\ sent' = TooLargeNotice(cb[t].chat, o)
                  /\ cb'[t].oversize
       /\ (cb[t].oversize /\ StepOf(t)) => proc' = proc
       /\ (cb[t].oversize /\ CbTooLargeShown(t))
            => UNCHANGED <<activeDownloads, obj>>
       /\ (cb[t].oversize /\ cb[t].pc = "tooLargeEdit" /\ CbRejected(t))
            => /\ sent' = <<Msg("sendMessage", "Error", cb[t].chat, 0)>>
               /\ UNCHANGED activeDownloads
       /\ (cb[t].oversize /\ CbCatchSent(t))
            => SidKey(cb[t].sid) \notin activeDownloads']_vars

\* C5 witness: the too-large message for an estimate of 80,000,000 bytes
\* (76.29 MB) is out and the session is in the store
C5_Witness ==
  \E t \in Presses :
    /\ cb[t].pc = "tooLargeEdit" /\ cb[t].oversize
    /\ sent = <<Msg("editMessageText", "File Too Large!", cb[t].chat, 7629)>>
    /\ SidKey(cb[t].sid) \in activeDownloads
    /\ \A p \in Procs : proc[p].pc = "free"

\* C6 (as claimed): the outcome of the close listener is a function of (exit
\* code, file present, file size), and the file is uploaded exactly in the
\* success case.
InRange(size) == IsDefined(size) /\ Val(size) > 0 /\ Val(size) <= MAX_FILE_SIZE
C6_OutcomeTable ==
  \A p \in Procs :
    proc[p].pc = "closed" =>
      LET code == proc[p].code
          size == proc[p].size
          o == proc[p].outcome
      IN /\ code # 0 => o = "Download failed with code"
         /\ (code = 0 /\ ~IsDefined(size)) => o = "File not found after download"
         /\ (code = 0 /\ IsDefined(size) /\ Val(size) = 0)
               => o = "Downloaded file is empty"
         /\ (code = 0 /\ IsDefined(size) /\ Val(size) > MAX_FILE_SIZE)
               => o = "File Too Large!"
         /\ (code = 0 /\ InRange(size)) => o = "success"
         /\ proc[p].uploaded <=> (code = 0 /\ InRange(size))

\* C6 (amended): the branch taken is a function of (exit code, file present,
\* file size); the too-large branch and the success branch end as stated
\* unless one of their messaging calls (too-large edit, chat action, upload)
\* is rejected, in which case the outcome is a failure report and nothing is
\* uploaded.  A file is uploaded in the success case only.
C6_OutcomeAmended ==
  \A p \in Procs :
    proc[p].pc \in ClosePcs \cup {"closed"} =>
      LET code == proc[p].code
          size == proc[p].size
          o == proc[p].outcome
          rejected == "messaging call rejected"
      IN /\ code # 0 => o = "Download failed with code"
         /\ (code = 0 /\ ~IsDefined(size)) => o = "File not found after download"
         /\ (code = 0 /\ IsDefined(size) /\ Val(size) = 0)
               => o = "Downloaded file is empty"
         /\ (code = 0 /\ IsDefined(size) /\ Val(size) > MAX_FILE_SIZE)
               => o \in {"File Too Large!", rejected}
         /\ (code = 0 /\ InRange(size)) => o \in {"success", rejected}
         /\ proc[p].uploaded => (o = "success" /\ code = 0 /\ InRange(size))
         /\ (proc[p].pc = "closed" /\ o = "success") => proc[p].uploaded

\* C6 witness: a file of exactly the ceiling was uploaded
C6_Witness ==
  \E p \in Procs :
    /\ proc[p].pc = "closed" /\ proc[p].uploaded
    /\ proc[p].size = Some(MAX_FILE_SIZE)

\* exactly one process was started for handler t and its handle stored
SpawnedOne(t) ==
  \E p \in Procs :
    /\ proc[p].pc = "free" /\ proc'[p].pc = "running"
    /\ proc'[p].sid = cb[t].sid
    /\ \A q \in Procs \ {p} : proc'[q] = proc[q]
    /\ obj'[SidKey(cb[t].sid)].downloadProcess = Some(p)
    /\ SidKey(cb[t].sid) \in activeDownloads'

C8_EmissionsAreGated ==
  \A p \in Procs : \A i \in 2..Len(progressLog[p]) :
    ~progressLog[p][i].final =>
      /\ Abs(progressLog[p][i].pct - progressLog[p][i - 1].pct) >= MIN_PROGRESS_CHANGE
      /\ progressLog[p][i].at - progressLog[p][i - 1].at >= PROGRESS_UPDATE_INTERVAL

\* C9 (as claimed): during a download that has lasted D ms at most
\* ceil(D / PROGRESS_UPDATE_INTERVAL) + 1 progress edits were issued.
CeilDiv(a, b) == (a + b - 1) \div b
C9_EmissionsBounded ==
  \A p \in Procs :
    proc[p].pc \in {"running"} \cup ClosePcs =>
      Len(progressLog[p])
        <= CeilDiv(clock - proc[p].started, PROGRESS_UPDATE_INTERVAL) + 1

\* C10 (as claimed): a download that completed successfully (its file was
\* uploaded) had its final 100% progress edit issued exactly once.
FinalEmissions(p) == {i \in 1..Len(progressLog[p]) : progressLog[p][i].final}
C10_Final100Forced ==
  \A p \in Procs : proc[p].uploaded => Cardinality(FinalEmissions(p)) = 1

\* C11 (as claimed): for a single session the percentages of the emitted
\* progress notifications are non-decreasing in emission order.
C11_EmissionsMonotone ==
  \A p \in Procs : \A i \in 1..Len(progressLog[p]) : \A j \in i..Len(progressLog[p]) :
    progressLog[p][i].pct <= progressLog[p][j].pct

\* C12: /cancel issued when no session of the chat with a process handle is
\* in the store answers "No active download to cancel" and changes nothing
\* else: store, records, processes and files stay as they are.
HandleInStore(c) ==
  \E s \in SessionIds :
    /\ sessChat[s] = c
    /\ SidKey(s) \in activeDownloads
    /\ IsDefined(obj[SidKey(s)].downloadProcess)
C12_CancelWithoutHandle ==
  [][\A c \in Chats :
       (CancelCommand(c) /\ ~HandleInStore(c))
          => /\ sent' = <<Msg("sendMessage", "No active download to cancel", c, 0)>>
             /\ UNCHANGED <<activeDownloads, obj, proc, files, edits, cb, url>>]_vars

\* C12 witness: the notice was sent with no session of the chat in the store,
\* while the progress reporter's entry for the chat is still there
C12_Witness ==
  /\ sent = <<Msg("sendMessage", "No active download to cancel", "chatA", 0)>>
  /\ ~HandleInStore("chatA")
  /\ ChatKey("chatA") \in activeDownloads

\* C13: a process-level error event is reported by a new chat message (a
\* sendMessage, not an edit of the progress message) and the session is
\* removed from the store.
C13_ErrorEventReported ==
  [][\A p \in Procs :
       OnError(p)
          => /\ sent' = <<Msg("sendMessage", "Download Error", proc[p].chat, 0)>>
             /\ SidKey(proc[p].sid) \notin activeDownloads']_vars

\* C13 witness: the error report is out and the session is gone
C13_Witness ==
  \E p \in Procs :
    /\ proc[p].errored
    /\ sent = <<Msg("sendMessage", "Download Error", proc[p].chat, 0)>>
    /\ SidKey(proc[p].sid) \notin activeDownloads

\* C14: a text message that is no command and no well-formed URL is answered
\* with the invalid-URL notice; no session is created, no handler (hence no
\* probe) and no process is started, the store is unchanged.
C14_MalformedUrlRejected ==
  [][\A c \in Chats :
       MessageReceived(c, "malformed")
          => /\ sent' = <<Msg("sendMessage", "Invalid URL!", c, 0)>>
             /\ UNCHANGED <<activeDownloads, obj, nextSid, sessChat, url, proc,
                            files>>]_vars

\* C14 witness: the notice is out, the store holds what it held (one session)
C14_Witness ==
  /\ sent = <<Msg("sendMessage", "Invalid URL!", "chatA", 0)>>
  /\ activeDownloads = {SidKey(1)}
  /\ nextSid = 1

\* the fallback record of the metadata probe
FallbackRecord(n) ==
  [title |-> FallbackTitle(n), cleanTitle |-> FallbackTitle(n),
   platform |-> "Unknown", duration |-> 0, ext |-> "mp4"]
DumpFailures == {"exit_nonzero", "malformed_json"}
EstimateFailures == {o \in EstimateOutcomes : o.kind # "length"}
\* neither probe raises: the URL handler goes on to its menu, the button
\* handler goes on to "Starting Download..." with no size (unestimated)
ProbeDoesNotThrow(u) == url'[u].pc = "menu"
EstimateDegrades(t, o) ==
  /\ estimateFileSize(o) = Unestimated
  /\ cb'[t].pc = "startEdit"
  /\ sent' = <<Msg("editMessageText", "Starting Download...", cb[t].chat, 0)>>

\* C15 (as claimed): for every failure of the external tool the metadata
\* probe returns the fallback record and the size estimate returns
\* unestimated; neither raises an error to its caller.
C15_ProbesDegrade ==
  [][/\ \A u \in SessionIds, o \in ProbeOutcomes \ {"ok"} :
          UrlChecked(u, o)
             => /\ getVideoInfo(o, nextSid') = FallbackRecord(nextSid')
                /\ ProbeDoesNotThrow(u)
     /\ \A t \in Presses, o \in EstimateFailures :
          (CbAcknowledged(t, o) /\ cb[t].action \in FormatActions)
             => EstimateDegrades(t, o)]_vars

\* C15 (amended): neither probe raises an error to its caller; when the JSON
\* dump of the external tool fails (non-zero exit, malformed output) the
\* metadata probe returns the fallback record (synthetic title, platform
\* 'Unknown', duration 0, extension mp4); when only the file-name lookup
\* fails it returns the probed title, platform and duration with a synthetic
\* clean title; every failure of the size estimate gives 'unestimated'.
C15_ProbesDegradeAmended ==
  [][/\ \A u \in SessionIds, o \in ProbeOutcomes \ {"ok"} :
          UrlChecked(u, o)
             => /\ ProbeDoesNotThrow(u)
                /\ o \in DumpFailures
                     => /\ getVideoInfo(o, nextSid') = FallbackRecord(nextSid')
                        /\ obj'[SidKey(nextSid')].cleanTitle
                             = Some(FallbackTitle(nextSid'))
                /\ o = "filename_fails"
                     => /\ getVideoInfo(o, nextSid')
                             = [getVideoInfo("ok", nextSid') EXCEPT
                                  !.cleanTitle = FallbackFilename(nextSid')]
                        /\ obj'[SidKey(nextSid')].cleanTitle
                             = Some(FallbackFilename(nextSid'))
     /\ \A t \in Presses, o \in EstimateFailures :
          (CbAcknowledged(t, o) /\ cb[t].action \in FormatActions)
             => EstimateDegrades(t, o)]_vars

\* C15 witness: a session made from the fallback record has reached
\* "Starting Download..." with no size estimate
C15_Witness ==
  /\ obj[SidKey(1)].meta
       = Some([title |-> FallbackTitle(1), platform |-> "Unknown", duration |-> 0])
  /\ cb[1].pc = "startEdit" /\ cb[1].sid = 1
  /\ sent = <<Msg("editMessageText", "Starting Download...", "chatA", 0)>>

\* C16: file cleanup is idempotent: the first invocation leaves no file at
\* the path, an invocation on a path that holds no file changes nothing and
\* raises nothing (the listener ends as usual), and a second invocation
\* after the first gives the same folder; cleanup itself never touches the
\* session store.
C16_CleanupIdempotent ==
  [][\A p \in Procs :
       CloseEnd(p) =>
         LET once == cleanupFiles(files, proc[p].path)
         IN /\ files' = once
            /\ once[proc[p].path] = Undefined
            /\ cleanupFiles(once, proc[p].path) = once
            /\ files[proc[p].path] = Undefined => files' = files
            /\ proc'[p].pc = "closed"
            /\ activeDownloads' = activeDownloads \ {SidKey(proc[p].sid)}
            /\ obj' = obj]_vars

\* C16 witness: the listener ended after cleaning a path that held no file
\* (exit 0, nothing written)
C16_Witness ==
  \E p \in Procs :
    /\ proc[p].pc = "closed"
    /\ proc[p].outcome = "File not found after download"
    /\ files[proc[p].path] = Undefined

\* C17 (as claimed): reading a session does not change it, and the menu
\* navigation actions leave the contents of the session store unchanged.
C17_MenuNavigationReadsOnly ==
  [][/\ \A t \in Presses, a \in Actions, sid \in SessionIds, c \in Chats :
          CallbackQuery(t, a, sid, c) => UNCHANGED <<activeDownloads, obj>>
     /\ \A t \in Presses :
          (cb[t].action \in MenuActions /\ StepOf(t))
             => UNCHANGED <<activeDownloads, obj>>]_vars

\* C17 (amended): reading a session does not change it (the same formatType,
\* quality and metadata are read back), and a menu navigation action whose
\* acknowledge and menu edit are accepted leaves the contents of the store
\* unchanged; when one of the two calls is rejected the catch block reports
\* an error and then removes the session, changing no record.
C17_MenuNavigationAmended ==
  [][/\ \A t \in Presses, a \in Actions, sid \in SessionIds, c \in Chats :
          CallbackQuery(t, a, sid, c) => UNCHANGED <<activeDownloads, obj>>
     /\ \A t \in Presses :
          cb[t].action \in MenuActions =>
            /\ (StepOf(t) /\ ~CbCatchSent(t)) => UNCHANGED <<activeDownloads, obj>>
            /\ CbCatchSent(t)
                 => /\ obj' = obj
                    /\ activeDownloads' = activeDownloads \ {SidKey(cb[t].sid)}]_vars

\* C17 witness: a menu navigation handler has shown its menu, the session
\* is in the store with the fields it was created with
C17_Witness ==
  \E t \in Presses :
    /\ cb[t].pc = "menuEdit" /\ cb[t].action = "video_menu"
    /\ sent = <<Msg("editMessageText", "video_menu", cb[t].chat, cb[t].sid)>>
    /\ SidKey(cb[t].sid) \in activeDownloads
    /\ obj[SidKey(cb[t].sid)] = SessionRecord(ProbedTitle, ProbedTitle)

\* C18 (as claimed): once a session has been removed from the store no
\* handler puts it back or spawns a download process for it.
Created(s) == s \in 1..nextSid
C18_RemovedIsTerminal ==
  [][\A s \in SessionIds :
       (Created(s) /\ SidKey(s) \notin activeDownloads)
          => /\ SidKey(s) \notin activeDownloads'
             /\ \A p \in Procs :
                  (proc'[p].pc = "running" /\ proc'[p].sid = s)
                     => proc[p].pc = "running"]_vars

\* C19 (as claimed): every key of the session store is a session identifier
\* generated when a URL was received; nothing is stored under a chat
\* identifier.
C19_OneKeyScheme ==
  activeDownloads \subseteq {SidKey(s) : s \in 1..nextSid}

\* the inline keyboard rendered with each menu text: the actions it offers
Keyboard(text) ==
  CASE text = "main_menu" -> {"video_menu", "audio_menu"}
    [] text = "audio_menu" -> AudioActions \cup {"main_menu", "cancel"}
    [] text = "video_menu" -> VideoActions \cup {"audio_menu", "cancel"}
    [] OTHER -> {}

\* a menu state has just been rendered by an edit of the session's message
Rendered(text) ==
  /\ Len(sent) = 1
  /\ sent[1].api = "editMessageText"
  /\ sent[1].text = text

\* C20 (as claimed): the top menu offers the audio and the video menu, the
\* audio and the video menu each offer the main-menu action, each of the
\* three offers cancel, and the cancelled state offers no action.
C20_MenuStateMachine ==
  /\ Rendered("main_menu")
       => {"audio_menu", "video_menu", "cancel"} \subseteq Keyboard("main_menu")
  /\ Rendered("audio_menu")
       => {"main_menu", "cancel"} \subseteq Keyboard("audio_menu")
  /\ Rendered("video_menu")
       => {"main_menu", "cancel"} \subseteq Keyboard("video_menu")
  /\ Rendered("Operation canceled") => Keyboard("Operation canceled") = {}

\* C21 (as claimed): the metadata probe and the size estimate always
\* terminate, so the handler that called them always continues: a URL
\* handler that has sent "Checking link..." gets past the probe, a button
\* handler that was acknowledged gets past the estimate.
C21_ProbesTerminate ==
  /\ (url[1].pc = "checking") ~> (url[1].pc \in {"menu", "done"})
  /\ (cb[1].pc = "ack") ~> (cb[1].pc \notin {"ack", "blocked"})

\* the terminal reports made for session s: the error listener's message,
\* and the close listener's report (failure edit, too-large edit or delivery)
ErrorReports(s) == {p \in Procs : proc[p].sid = s /\ proc[p].errored}
CloseReports(s) ==
  {p \in Procs : proc[p].sid = s
                   /\ proc[p].pc \in {"tooLargeEdit", "catchEdit", "deleteMsg", "closed"}}

\* C22 (as claimed): a session never produces two terminal reports.
C22_OneTerminalReport ==
  \A s \in SessionIds :
    Cardinality(ErrorReports(s)) + Cardinality(CloseReports(s)) <= 1

\* C25 (as claimed): a press whose action is none of the recognised kinds
\* does not enter the download path: no estimate is run, no session field
\* is written, no process is spawned.
RecognisedActions == MenuActions \cup {"cancel"} \cup FormatActions
C25_UnknownActionRejected ==
  [][\A t \in Presses :
       (cb[t].action \in Actions \ RecognisedActions /\ StepOf(t))
          => /\ obj' = obj
             /\ proc' = proc
             /\ cb'[t].pc \notin {"startEdit", "tooLargeEdit"}]_vars

\* C26: a failed progress edit is non-fatal: the failed edit changes neither
\* the process, the files nor the store; after a failed final edit the close
\* listener goes on to the chat action exactly as after a successful one;
\* and the listener still ends with the cleanup done.
C26_FailedEditNonFatal ==
  /\ [][/\ \A e \in edits :
             EditRejected(e) => UNCHANGED <<proc, files, activeDownloads, obj>>
        /\ \A p \in Procs :
             CloseProgressDone(p, FALSE)
                => /\ proc' = [proc EXCEPT ![p].pc = "chatAction"]
                   /\ sent' = <<ChatActionMsg(p)>>
                   /\ UNCHANGED <<files, activeDownloads, obj>>]_vars
  /\ \A p \in Procs : (proc[p].pc = "progress100") ~> CleanedUp(p)

\* C26 witness: every progress edit of the download was rejected (nothing
\* was stored for the chat) and the file was delivered and cleaned up
C26_Witness ==
  \E p \in Procs :
    /\ Len(progressLog[p]) > 0 /\ edits = {}
    /\ ChatKey(proc[p].chat) \notin activeDownloads
    /\ proc[p].uploaded /\ CleanedUp(p)

\* C27: every emitted progress percentage is an integer in [0,100], also for
\* readings above 100.
C27_EmittedInRange ==
  /\ \A p \in Procs : \A i \in 1..Len(progressLog[p]) :
       progressLog[p][i].pct \in 0..100
  /\ \A i \in 1..Len(sent) :
       sent[i].text = "Download Progress" => sent[i].num \in 0..100

\* C27 witness: a reading of 120.4% was emitted as 100
C27_Witness ==
  \E p \in Procs : \E i \in 1..Len(progressLog[p]) :
    progressLog[p][i].pct = 100 /\ ~progressLog[p][i].final

\* C23 (as claimed): while the download of another session is in flight, the
\* cleanup of a session does not delete, and the delivery of a session does
\* not upload, that other session's destination file.
C23_DistinctDestinations ==
  [][\A p \in Procs, q \in Procs :
       (proc[p].sid # proc[q].sid /\ proc[q].pc = "running")
          => /\ CloseEnd(p) => files'[proc[q].path] = files[proc[q].path]
             /\ CloseUploaded(p) => proc[p].path # proc[q].path]_vars

\* C24 (as claimed): whether a reading is emitted depends only on the
\* session's own earlier emissions; in particular the first reading of a
\* session meets the throttle state of a session that has emitted nothing.
C24_ThrottlePerSession ==
  [][\A p \in Procs, l \in LineTenths, now \in Nows :
       (OnLine(p, l, now) /\ Len(progressLog[p]) = 0)
          => (Len(progressLog'[p]) = 1
                <=> ~GateBlocks(EmptyRecord, ClampProgress(ParseProgress(l)), now))]_vars
====
